---- MODULE Spec2Model ----
(***************************************************************************)
(* PE Collective: the form-submission relay of google-apps-script.js       *)
(* (doPost, doGet, testSubmission) over a spreadsheet of named tabs, and   *)
(* the page tracker of assets/js/tracking.js over a document tree.         *)
(*                                                                         *)
(* JavaScript values are tagged records [t |-> type, <payload>]; JSON      *)
(* text is a sequence of tokens [k |-> kind, <lexeme>]; a completion       *)
(* is [type |-> "normal" | "throw", value |-> ...].                        *)
(***************************************************************************)
EXTENDS Integers, Sequences, FiniteSets, TLC

VARIABLES
    globals,    \* the script's top-level constants (SHEET_NAME, COLUMNS)
    ss,         \* the active spreadsheet: tab name -> sequence of rows
    now,        \* the server's current date [y, m, d]
    e,          \* the event object of the last doPost/doGet call
    call,       \* the last call: [fn, today, storeOk, prior, rowData, logged]
    result,     \* the completion of the last doPost/doGet call
    hist,       \* history: seed rows, rows handed to a successful appendRow, success count
    twin,       \* a second deployment with its own history (used by SpecTwin only)
    reqs,       \* the executions of doPost in flight (used by SpecConcurrent only)
    window,     \* the page's global environment: gtag, location.pathname
    document,   \* the loaded page: its elements, which details are open
    listeners,  \* the listeners the tracker has registered: [el, type, group]
    dataLayer,  \* the calls gtag has received on this page
    fired       \* the last user interaction and the listeners it ran

relayVars == <<globals, ss, now, e, call, result, hist, twin>>
trackerVars == <<window, document, listeners, dataLayer, fired>>
vars == <<relayVars, reqs, trackerVars>>

(***************************************************************************)
(* Bounds                                                                  *)
(***************************************************************************)
MaxRows == 2        \* rows appended to one sheet in a behaviour of Spec
MaxTwinRows == 1    \* earlier rows of a sheet in a behaviour of SpecTwin
MaxRequests == 2    \* executions of doPost in flight in a behaviour of SpecConcurrent
MaxInteractions == 3    \* user interactions with one loaded page in a behaviour of SpecTracker
MaxMutations == 1       \* elements another script changes after the tracker has run

(***************************************************************************)
(* JavaScript values                                                       *)
(***************************************************************************)
Undefined == [t |-> "undefined"]
Null == [t |-> "null"]
Str(s) == [t |-> "string", v |-> s]
Num(n) == [t |-> "number", n |-> n]
Bool(b) == [t |-> "boolean", b |-> b]
Obj(f) == [t |-> "object", o |-> f]
Arr(s) == [t |-> "array", a |-> s]
Text(toks) == [t |-> "string", toks |-> toks]     \* a string holding JSON text
EmptyObject == Obj([k \in {} |-> Undefined])

Normal(v) == [type |-> "normal", value |-> v]
Throw(x) == [type |-> "throw", value |-> x]
Exception(name, message) == [name |-> name, message |-> message]

\* x.toString() of an Error object: "<name>: <message>"
ErrorToString(x) == x.name \o ": " \o x.message

\* ToBoolean: what `a || b` tests
Truthy(v) ==
    CASE v.t = "undefined" -> FALSE
      [] v.t = "null" -> FALSE
      [] v.t = "string" -> v.v # ""
      [] v.t = "number" -> v.n # 0
      [] v.t = "boolean" -> v.b
      [] OTHER -> TRUE

\* a variant that replaces only undefined and null (a ?? b)
OrNullish(a, b) == IF a.t \in {"undefined", "null"} THEN b ELSE a

\* a || b
Or(a, b) == IF Truthy(a) THEN a ELSE b

\* a variant that refuses to read a property of anything but an object
GetPropStrict(base, name) ==
    IF base.t = "object"
    THEN Normal(IF name \in DOMAIN base.o THEN base.o[name] ELSE Undefined)
    ELSE Throw(Exception("TypeError",
            "Cannot read properties of " \o base.t \o " (reading '" \o name \o "')"))

\* base.name: a TypeError on undefined and null, undefined on a primitive or
\* an array (none of the names read here is an own or inherited property)
GetProp(base, name) ==
    CASE base.t \in {"undefined", "null"} ->
            Throw(Exception("TypeError",
                "Cannot read properties of " \o base.t \o " (reading '" \o name \o "')"))
      [] base.t = "object" ->
            Normal(IF name \in DOMAIN base.o THEN base.o[name] ELSE Undefined)
      [] OTHER -> Normal(Undefined)

\* s.includes(sub) on strings
Includes(s, sub) ==
    \E i \in 1..(Len(s) - Len(sub) + 1) : SubSeq(s, i, i + Len(sub) - 1) = sub

(***************************************************************************)
(* JSON text                                                               *)
(***************************************************************************)
Punct(c) == [k |-> "punct", v |-> c]
StrTok(s) == [k |-> "string", v |-> s]
NumTok(n) == [k |-> "number", n |-> n]
LitTok(w) == [k |-> "literal", v |-> w]
Junk(w) == [k |-> "junk", v |-> w]

IsScalarTok(tk) ==
    \/ tk.k \in {"string", "number"}
    \/ tk.k = "literal" /\ tk.v \in {"null", "true", "false"}

ScalarOfTok(tk) ==
    CASE tk.k = "string" -> Str(tk.v)
      [] tk.k = "number" -> Num(tk.n)
      [] tk.v = "null" -> Null
      [] tk.v = "true" -> Bool(TRUE)
      [] OTHER -> Bool(FALSE)

TokOfScalar(v) ==
    CASE v.t = "string" -> StrTok(v.v)
      [] v.t = "number" -> NumTok(v.n)
      [] v.t = "boolean" -> LitTok(IF v.b THEN "true" ELSE "false")
      [] OTHER -> LitTok("null")

\* members of an object: key : value (, key : value)*
IsMembers(m) ==
    /\ Len(m) % 4 = 3
    /\ \A q \in 1..((Len(m) + 1) \div 4) :
          /\ m[4 * q - 3].k = "string"
          /\ m[4 * q - 2] = Punct(":")
          /\ IsScalarTok(m[4 * q - 1])
          /\ 4 * q < Len(m) => m[4 * q] = Punct(",")

\* a later duplicate of a key overwrites the earlier one
MembersToObject(m) ==
    Obj([k \in {m[4 * q - 3].v : q \in 1..((Len(m) + 1) \div 4)} |->
            ScalarOfTok(m[4 * (CHOOSE q \in 1..((Len(m) + 1) \div 4) :
                                  /\ m[4 * q - 3].v = k
                                  /\ \A p \in (q + 1)..((Len(m) + 1) \div 4) :
                                        m[4 * p - 3].v # k) - 1])])

\* elements of an array: value (, value)*
IsElements(m) ==
    /\ Len(m) % 2 = 1
    /\ \A i \in 1..Len(m) : IF i % 2 = 1 THEN IsScalarTok(m[i]) ELSE m[i] = Punct(",")

ElementsToArray(m) ==
    Arr([i \in 1..((Len(m) + 1) \div 2) |-> ScalarOfTok(m[2 * i - 1])])

\* JSON.parse(text); a non-string argument is first converted to a string
JSON_parse(text) ==
    LET toks == IF text.t = "string" THEN text.toks ELSE <<Junk(text.t)>>
        n == Len(toks)
        inner == SubSeq(toks, 2, n - 1)
    IN  CASE n = 0 ->
                Throw(Exception("SyntaxError", "Unexpected end of JSON input"))
          [] n = 1 /\ IsScalarTok(toks[1]) ->
                Normal(ScalarOfTok(toks[1]))
          [] n >= 2 /\ toks[1] = Punct("{") /\ toks[n] = Punct("}")
                    /\ (n = 2 \/ IsMembers(inner)) ->
                Normal(IF n = 2 THEN EmptyObject ELSE MembersToObject(inner))
          [] n >= 2 /\ toks[1] = Punct("[") /\ toks[n] = Punct("]")
                    /\ (n = 2 \/ IsElements(inner)) ->
                Normal(IF n = 2 THEN Arr(<<>>) ELSE ElementsToArray(inner))
          [] OTHER ->
                Throw(Exception("SyntaxError", "Unexpected token in JSON"))

RECURSIVE MemberTokens(_, _)
\* the members of object o for the keys of sequence `order` that o owns
MemberTokens(o, order) ==
    IF order = <<>> THEN <<>>
    ELSE LET k == Head(order)
             rest == MemberTokens(o, Tail(order))
         IN  IF k \notin DOMAIN o.o \/ o.o[k].t = "undefined" THEN rest
             ELSE <<StrTok(k), Punct(":"), TokOfScalar(o.o[k])>>
                      \o (IF rest = <<>> THEN <<>> ELSE <<Punct(",")>> \o rest)

\* JSON.stringify(o) of a flat object whose keys were inserted in `order`
JSON_stringify(o, order) ==
    <<Punct("{")>> \o MemberTokens(o, order) \o <<Punct("}")>>

(***************************************************************************)
(* Configuration and platform services                                     *)
(***************************************************************************)
SHEET_NAME == "Registrants"

COLUMNS ==
    <<"First Name", "Last Name", "Business Email", "LinkedIn URL",
      "Company", "Job Title", "Date Joined">>

\* the properties of `data` read by doPost, in the order of the row
FIELDS ==
    <<"first_name", "last_name", "email", "linkedin_url",
      "company", "job_title", "date_joined">>

\* a variant that pads month and day to two digits (MM/DD/YYYY)
toLocaleDateStringPadded(date) ==
    (IF date.m < 10 THEN "0" ELSE "") \o ToString(date.m) \o "/"
        \o (IF date.d < 10 THEN "0" ELSE "") \o ToString(date.d) \o "/"
        \o ToString(date.y)

\* date.toLocaleDateString('en-US'): month/day/year, not zero-padded
toLocaleDateString(date) ==
    ToString(date.m) \o "/" \o ToString(date.d) \o "/" \o ToString(date.y)

\* ss.getSheetByName(name): the sheet, or null
getSheetByName(book, name) ==
    IF name \in DOMAIN book THEN [t |-> "sheet", name |-> name] ELSE Null

\* a variant that skips a row the sheet already holds
appendRowUnique(book, sheet, row, storeOk) ==
    IF storeOk
    THEN [completion |-> Normal(sheet),
          book |-> IF \E i \in 1..Len(book[sheet.name]) : book[sheet.name][i] = row
                   THEN book
                   ELSE [book EXCEPT ![sheet.name] = Append(@, row)]]
    ELSE [completion |-> Throw(Exception("Exception",
                            "Service Spreadsheets failed while accessing document")),
          book |-> book]

\* a variant that inserts the row above the rows already there
appendRowOnTop(book, sheet, row, storeOk) ==
    IF storeOk
    THEN [completion |-> Normal(sheet),
          book |-> [book EXCEPT ![sheet.name] = <<row>> \o @]]
    ELSE [completion |-> Throw(Exception("Exception",
                            "Service Spreadsheets failed while accessing document")),
          book |-> book]

\* a variant that writes the row into the line after the header, whatever
\* is there (the last row is found and written in two steps elsewhere)
appendRowOverLast(book, sheet, row, storeOk) ==
    IF storeOk
    THEN [completion |-> Normal(sheet),
          book |-> [book EXCEPT ![sheet.name] = SubSeq(@, 1, 1) \o <<row>>]]
    ELSE [completion |-> Throw(Exception("Exception",
                            "Service Spreadsheets failed while accessing document")),
          book |-> book]

\* sheet.appendRow(row): the row becomes the new last row, or the service fails
\* and the sheet is left as it was
appendRow(book, sheet, row, storeOk) ==
    IF storeOk
    THEN [completion |-> Normal(sheet),
          book |-> [book EXCEPT ![sheet.name] = Append(@, row)]]
    ELSE [completion |-> Throw(Exception("Exception",
                            "Service Spreadsheets failed while accessing document")),
          book |-> book]

\* ContentService.createTextOutput(content).setMimeType(ContentService.MimeType.JSON)
TextOutput(content) == [t |-> "TextOutput", content |-> content, mimeType |-> "JSON"]

\* JSON.stringify({ status: ..., message: ... })
EnvelopeText(status, message) ==
    JSON_stringify(Obj([status |-> Str(status), message |-> Str(message)]),
                   <<"status", "message">>)

\* result.getContent(), read back as an object: [status, message]
Envelope(output) == JSON_parse(Text(output.content)).value.o

(***************************************************************************)
(* doPost                                                                  *)
(***************************************************************************)
\* a variant with the second and third cells exchanged
rowDataSwapped(data, today) ==
    IF GetProp(data, FIELDS[1]).type = "throw"
    THEN GetProp(data, FIELDS[1])
    ELSE Normal([i \in 1..Len(FIELDS) |->
                    LET j == IF i = 2 THEN 3 ELSE IF i = 3 THEN 2 ELSE i
                    IN  Or(GetProp(data, FIELDS[j]).value,
                           Str(IF i = Len(FIELDS) THEN toLocaleDateString(today) ELSE ""))])

\* the array literal rowData; reading a property of null throws
rowData(data, today) ==
    IF GetProp(data, FIELDS[1]).type = "throw"
    THEN GetProp(data, FIELDS[1])
    ELSE Normal([i \in 1..Len(FIELDS) |->
                    Or(GetProp(data, FIELDS[i]).value,
                       Str(IF i = Len(FIELDS) THEN toLocaleDateString(today) ELSE ""))])

\* a variant whose message does not name the sheet
SheetNotFoundUnnamed(name) ==
    Exception("Error", "Sheet not found. Check the SHEET_NAME configuration.")

\* new Error(`Sheet "${SHEET_NAME}" not found. Check the SHEET_NAME configuration.`)
SheetNotFound(name) ==
    Exception("Error",
        "Sheet \"" \o name \o "\" not found. Check the SHEET_NAME configuration.")

\* what a call of doPost leaves behind: its completion, the spreadsheet, the
\* row it built (<<>> when it built none), whether appendRow returned, and
\* what console.error was given
Outcome(completion, book, row, appended) ==
    [completion |-> completion, book |-> book, row |-> row,
     appended |-> appended, logged |-> <<>>]

\* a variant that refuses a row the sheet already holds
doPostStoreOnce(data, book, today, storeOk, g) ==
    LET sheet == getSheetByName(book, g.SHEET_NAME)
        row == rowData(data, today)
    IN  IF ~Truthy(sheet)
        THEN Outcome(Throw(SheetNotFound(g.SHEET_NAME)), book, <<>>, FALSE)
        ELSE IF row.type = "throw"
        THEN Outcome(row, book, <<>>, FALSE)
        ELSE IF \E i \in 1..Len(book[sheet.name]) : book[sheet.name][i] = row.value
        THEN Outcome(Throw(Exception("Error", "Already registered")), book, row.value, FALSE)
        ELSE LET a == appendRow(book, sheet, row.value, storeOk)
             IN  IF a.completion.type = "throw"
                 THEN Outcome(a.completion, a.book, row.value, FALSE)
                 ELSE Outcome(Normal(TextOutput(
                            EnvelopeText("success", "Registration saved successfully"))),
                        a.book, row.value, TRUE)

\* the statements of the try block from getActiveSpreadsheet on
doPostStore(data, book, today, storeOk, g) ==
    LET sheet == getSheetByName(book, g.SHEET_NAME)
        row == rowData(data, today)
    IN  IF ~Truthy(sheet)
        THEN Outcome(Throw(SheetNotFound(g.SHEET_NAME)), book, <<>>, FALSE)
        ELSE IF row.type = "throw"
        THEN Outcome(row, book, <<>>, FALSE)
        ELSE LET a == appendRow(book, sheet, row.value, storeOk)
             IN  IF a.completion.type = "throw"
                 THEN Outcome(a.completion, a.book, row.value, FALSE)
                 ELSE Outcome(Normal(TextOutput(
                            EnvelopeText("success", "Registration saved successfully"))),
                        a.book, row.value, TRUE)

\* a variant that takes a body it cannot parse for an empty submission
doPostTryLenient(ev, book, today, storeOk, g) ==
    LET postData == GetProp(ev, "postData")
        contents == GetProp(postData.value, "contents")
        data == JSON_parse(contents.value)
    IN  IF postData.type = "throw" THEN Outcome(postData, book, <<>>, FALSE)
        ELSE IF contents.type = "throw" THEN Outcome(contents, book, <<>>, FALSE)
        ELSE IF data.type = "throw" THEN doPostStore(EmptyObject, book, today, storeOk, g)
        ELSE doPostStore(data.value, book, today, storeOk, g)

\* the try block
doPostTry(ev, book, today, storeOk, g) ==
    LET postData == GetProp(ev, "postData")
        contents == GetProp(postData.value, "contents")
        data == JSON_parse(contents.value)
    IN  IF postData.type = "throw" THEN Outcome(postData, book, <<>>, FALSE)
        ELSE IF contents.type = "throw" THEN Outcome(contents, book, <<>>, FALSE)
        ELSE IF data.type = "throw" THEN Outcome(data, book, <<>>, FALSE)
        ELSE doPostStore(data.value, book, today, storeOk, g)

\* a variant without the catch clause
doPostUncaught(ev, book, today, storeOk, g) ==
    doPostTry(ev, book, today, storeOk, g)

\* a variant whose catch clause reports success
doPostSwallow(ev, book, today, storeOk, g) ==
    LET r == doPostTry(ev, book, today, storeOk, g)
    IN  IF r.completion.type = "throw"
        THEN [r EXCEPT
                !.logged = <<r.completion.value>>,
                !.completion = Normal(TextOutput(
                    EnvelopeText("success", "Registration saved successfully")))]
        ELSE r

\* function doPost(e): the try block and its catch clause
doPost(ev, book, today, storeOk, g) ==
    LET r == doPostTry(ev, book, today, storeOk, g)
    IN  IF r.completion.type = "throw"
        THEN [r EXCEPT
                !.logged = <<r.completion.value>>,
                !.completion = Normal(TextOutput(
                    EnvelopeText("error", ErrorToString(r.completion.value))))]
        ELSE r

\* a variant that looks for the destination sheet first
doGetChecksSheet(ev, book) ==
    [completion |->
        IF Truthy(getSheetByName(book, SHEET_NAME))
        THEN Normal(TextOutput(EnvelopeText("ok",
                "PE Collective Form Handler is running. Use POST to submit data.")))
        ELSE Normal(TextOutput(EnvelopeText("error",
                ErrorToString(SheetNotFound(SHEET_NAME))))),
     book |-> book]

\* function doGet(e)
doGet(ev, book) ==
    [completion |-> Normal(TextOutput(EnvelopeText("ok",
            "PE Collective Form Handler is running. Use POST to submit data."))),
     book |-> book]

\* the event object built by testSubmission
testData(today) ==
    Obj([postData |-> Obj([contents |-> Text(JSON_stringify(
            Obj([first_name |-> Str("Test"),
                 last_name |-> Str("User"),
                 email |-> Str("test@example.com"),
                 linkedin_url |-> Str("https://linkedin.com/in/testuser"),
                 company |-> Str("Test Company"),
                 job_title |-> Str("Test Engineer"),
                 date_joined |-> Str(toLocaleDateString(today))]),
            FIELDS))])])

(***************************************************************************)
(* Requests                                                                *)
(***************************************************************************)
StartDate == [y |-> 2026, m |-> 2, d |-> 14]
NextDate == [y |-> 2026, m |-> 2, d |-> 15]

\* a submission with every field present
Sample ==
    Obj([first_name |-> Str("Test"),
         last_name |-> Str("User"),
         email |-> Str("test@example.com"),
         linkedin_url |-> Str("https://linkedin.com/in/testuser"),
         company |-> Str("Test Company"),
         job_title |-> Str("Test Engineer"),
         date_joined |-> Str("02/14/2026")])

FieldNames == {FIELDS[i] : i \in 1..Len(FIELDS)}

Without(o, f) == Obj([k \in DOMAIN o.o \ {f} |-> o.o[k]])
With(o, f, v) == Obj([o.o EXCEPT ![f] = v])

\* what a field of a submission may hold instead of its sample text
Falsy == {Str(""), Null, Num(0), Bool(FALSE)}
Odd == {Str(" Ann "), Num(7)}

\* every field missing in turn; the other values in the first and the last
\* column
Objects ==
    {Sample, EmptyObject}
        \cup {Without(Sample, f) : f \in FieldNames}
        \cup {With(Sample, f, v) : f \in {FIELDS[1], FIELDS[Len(FIELDS)]}, v \in Falsy \cup Odd}

SampleText == JSON_stringify(Sample, FIELDS)

\* bodies that are JSON but no object
NonObjectTexts ==
    {<<NumTok(42)>>, <<StrTok("hello")>>, <<LitTok("true")>>, <<LitTok("null")>>,
     <<Punct("["), Punct("]")>>, <<Punct("["), StrTok("Test"), Punct("]")>>}

\* bodies that are not JSON: empty, form-encoded, truncated, trailing comma,
\* missing colon
MalformedTexts ==
    {<<>>,
     <<Junk("first_name=Test&last_name=User")>>,
     SubSeq(SampleText, 1, Len(SampleText) - 1),
     SubSeq(SampleText, 1, Len(SampleText) - 1) \o <<Punct(","), Punct("}")>>,
     <<Punct("{"), StrTok("first_name"), StrTok("Test"), Punct("}")>>}

Bodies ==
    {JSON_stringify(o, FIELDS) : o \in Objects} \cup NonObjectTexts \cup MalformedTexts

PostEvent(body) == Obj([postData |-> Obj([contents |-> Text(body)])])

\* the event objects doPost is called with
Events ==
    {Undefined, EmptyObject, Obj([postData |-> EmptyObject])}
        \cup {PostEvent(b) : b \in Bodies}

\* the calls of doPost: the event, and whether the append service works
\* (it fails for a full and for a partial submission)
Calls ==
    (Events \X {TRUE})
        \cup ({PostEvent(SampleText),
               PostEvent(JSON_stringify(Without(Sample, FIELDS[1]), FIELDS))} \X {FALSE})

\* the event objects doGet is called with
GetEvents == {Undefined, PostEvent(SampleText)}

(***************************************************************************)
(* State machine                                                           *)
(***************************************************************************)
HeaderRow == [i \in 1..Len(COLUMNS) |-> Str(COLUMNS[i])]

\* the spreadsheet the script is bound to: with or without the configured tab
Books ==
    {[n \in tabs |-> IF n = SHEET_NAME THEN <<HeaderRow>> ELSE <<>>] :
        tabs \in {{SHEET_NAME, "Sheet1"}, {"Sheet1"}}}

\* the last call: the function, the date it read, whether the append service
\* worked, the spreadsheet before it, the row it built and what it logged
NoCall ==
    [fn |-> "none", today |-> StartDate, storeOk |-> TRUE,
     prior |-> [n \in {} |-> <<>>], rowData |-> <<>>, logged |-> <<>>]

\* the second deployment: its spreadsheet, and its side of the last call made
\* to both deployments (paired: the last call went to both)
NoTwin ==
    [book |-> [n \in {} |-> <<>>], prior |-> [n \in {} |-> <<>>], count |-> 0,
     paired |-> FALSE, storeOk |-> TRUE, result |-> Normal(Undefined), rowData |-> <<>>]

\* before the first user interaction
\* (sink: typeof gtag when the script ran; count: the interactions since;
\* opened: the times a details went from closed to open)
NoInteraction ==
    [sink |-> "undefined", count |-> 0, opened |-> 0,
     type |-> "none", target |-> 0, ran |-> <<>>, native |-> "none"]

\* the completion is a returned JSON text output
Returned(completion) ==
    /\ completion.type = "normal"
    /\ completion.value.t = "TextOutput"
    /\ completion.value.mimeType = "JSON"

\* the status and the message of the envelope a call returned
Status(completion) ==
    IF Returned(completion) THEN Envelope(completion.value).status.v ELSE "none"
Message(completion) ==
    IF Returned(completion) THEN Envelope(completion.value).message.v ELSE "none"

\* no page is loaded in the browser
NoPage ==
    /\ window = [gtag |-> "undefined", pathname |-> "/"]
    /\ document = Null
    /\ listeners = <<>>
    /\ dataLayer = <<>>
    /\ fired = NoInteraction

Init ==
    /\ globals = [SHEET_NAME |-> SHEET_NAME, COLUMNS |-> COLUMNS]
    /\ ss \in Books
    /\ now = StartDate
    /\ e = Undefined
    /\ call = [NoCall EXCEPT !.prior = ss]
    /\ result = Normal(Undefined)
    /\ hist = [seed |-> ss, appended |-> <<>>, successes |-> 0]
    /\ twin = [NoTwin EXCEPT !.book = ss, !.prior = ss]
    /\ reqs = <<>>
    /\ NoPage

\* one call of doPost with event ev; storeOk: the append service works
Post(ev, storeOk) ==
    \E out \in {doPost(ev, ss, now, storeOk, globals)} :
        /\ ss' = out.book
        /\ result' = out.completion
        /\ e' = ev
        /\ call' = [fn |-> "doPost", today |-> now, storeOk |-> storeOk,
                    prior |-> ss, rowData |-> out.row, logged |-> out.logged]
        /\ hist' = [hist EXCEPT
                !.appended = IF out.appended THEN Append(@, out.row) ELSE @,
                !.successes = IF Status(out.completion) = "success" THEN @ + 1 ELSE @]
        /\ UNCHANGED <<globals, now, reqs, trackerVars>>

DoPost ==
    /\ Len(hist.appended) < MaxRows
    /\ \E c \in Calls : Post(c[1], c[2])
    /\ UNCHANGED twin

DoGet ==
    /\ \E ev \in GetEvents :
          LET r == doGet(ev, ss)
          IN  /\ ss' = r.book
              /\ result' = r.completion
              /\ e' = ev
              /\ call' = [NoCall EXCEPT !.fn = "doGet", !.today = now, !.prior = ss]
    /\ UNCHANGED <<globals, now, hist, twin, reqs, trackerVars>>

\* function testSubmission(): doPost(testData), then log the content
TestSubmission ==
    /\ Len(hist.appended) < MaxRows
    /\ \E storeOk \in BOOLEAN : Post(testData(now), storeOk)
    /\ UNCHANGED twin

\* midnight: new Date() is a day later
Tick ==
    /\ now = StartDate
    /\ now' = NextDate
    /\ UNCHANGED <<globals, ss, e, call, result, hist, twin, reqs, trackerVars>>

Next == DoPost \/ DoGet \/ TestSubmission \/ Tick

Spec == Init /\ [][Next]_vars

(***************************************************************************)
(* Two deployments of the script, each with its own spreadsheet and its    *)
(* own earlier requests, that are then sent the same request on the same   *)
(* day.                                                                    *)
(***************************************************************************)
InitTwin ==
    /\ globals = [SHEET_NAME |-> SHEET_NAME, COLUMNS |-> COLUMNS]
    /\ ss \in Books
    /\ now = StartDate
    /\ e = Undefined
    /\ call = [NoCall EXCEPT !.prior = ss]
    /\ result = Normal(Undefined)
    /\ hist = [seed |-> ss, appended |-> <<>>, successes |-> 0]
    /\ \E b \in Books : twin = [NoTwin EXCEPT !.book = b, !.prior = b]
    /\ reqs = <<>>
    /\ NoPage

\* the earlier requests of a deployment
SoloCalls ==
    {<<PostEvent(SampleText), TRUE>>,
     <<PostEvent(JSON_stringify(EmptyObject, FIELDS)), TRUE>>}

\* the request sent to both: the event and, for each deployment, whether its
\* append service works
PairEvents ==
    {Undefined,
     PostEvent(<<>>),
     PostEvent(<<LitTok("null")>>),
     PostEvent(SampleText),
     PostEvent(JSON_stringify(EmptyObject, FIELDS)),
     PostEvent(JSON_stringify(Without(Sample, FIELDS[1]), FIELDS)),
     PostEvent(JSON_stringify(With(Sample, FIELDS[Len(FIELDS)], Str("")), FIELDS))}

PairCalls ==
    (PairEvents \X {<<TRUE, TRUE>>})
        \cup ({PostEvent(SampleText)} \X ((BOOLEAN \X BOOLEAN) \ {<<TRUE, TRUE>>}))

\* doPost in the second deployment
PostTwin(ev, storeOk, both) ==
    \E out \in {doPost(ev, twin.book, now, storeOk, globals)} :
        twin' = [book |-> out.book, prior |-> twin.book,
                 count |-> IF out.appended THEN twin.count + 1 ELSE twin.count,
                 paired |-> both, storeOk |-> storeOk,
                 result |-> out.completion, rowData |-> out.row]

SoloLeft ==
    /\ ~twin.paired
    /\ Len(hist.appended) < MaxTwinRows
    /\ \E c \in SoloCalls : Post(c[1], c[2])
    /\ UNCHANGED twin

SoloRight ==
    /\ ~twin.paired
    /\ twin.count < MaxTwinRows
    /\ \E c \in SoloCalls : PostTwin(c[1], c[2], FALSE)
    /\ UNCHANGED <<globals, ss, now, e, call, result, hist, reqs, trackerVars>>

Both ==
    /\ Len(hist.appended) <= MaxTwinRows
    /\ twin.count <= MaxTwinRows
    /\ \E c \in PairCalls : Post(c[1], c[2][1]) /\ PostTwin(c[1], c[2][2], TRUE)

NextTwin == SoloLeft \/ SoloRight \/ Both \/ Tick

SpecTwin == InitTwin /\ [][NextTwin]_vars

(***************************************************************************)
(* Several executions of doPost at once.  Each execution has its own event *)
(* and its own locals (data, ss/sheet, rowData); they share the            *)
(* spreadsheet and the clock, and run statement by statement in any        *)
(* interleaving.  appendRow is one step.                                   *)
(***************************************************************************)
\* a variant that looks for the sheet before it parses the body
StatementsSheetFirst == <<"locate", "parse", "build", "append", "return">>

\* the statements of the try block, in the order they are written
Statements == <<"parse", "locate", "build", "append", "return">>

\* the statement after stmt ("done" after the last)
After(stmt) ==
    LET i == CHOOSE j \in 1..Len(Statements) : Statements[j] = stmt
    IN  IF i < Len(Statements) THEN Statements[i + 1] ELSE "done"

\* an execution that has not started: its event, whether the append service
\* works for it, its locals, what it returned and logged, and the statements
\* it has run
NoFrame ==
    [pc |-> "idle", e |-> Undefined, storeOk |-> TRUE, data |-> Undefined,
     sheet |-> Null, today |-> StartDate, rowData |-> <<>>,
     result |-> Normal(Undefined), logged |-> <<>>, ran |-> <<>>]

\* the requests that arrive together: a full, a partial and an empty
\* submission, a body that is no JSON, the body null, and a full submission
\* whose append fails
ConcurrentCalls ==
    ({PostEvent(SampleText),
      PostEvent(JSON_stringify(Without(Sample, FIELDS[1]), FIELDS)),
      PostEvent(JSON_stringify(Without(Sample, FIELDS[Len(FIELDS)]), FIELDS)),
      PostEvent(<<Junk("first_name=Test&last_name=User")>>),
      PostEvent(<<LitTok("null")>>)} \X {TRUE})
        \cup ({PostEvent(SampleText)} \X {FALSE})

InitConcurrent ==
    /\ globals = [SHEET_NAME |-> SHEET_NAME, COLUMNS |-> COLUMNS]
    /\ ss \in Books
    /\ now = StartDate
    /\ e = Undefined
    /\ call = [NoCall EXCEPT !.prior = ss]
    /\ result = Normal(Undefined)
    /\ hist = [seed |-> ss, appended |-> <<>>, successes |-> 0]
    /\ twin = [NoTwin EXCEPT !.book = ss, !.prior = ss]
    /\ reqs = [p \in 1..MaxRequests |-> NoFrame]
    /\ NoPage

\* the statement stmt of an execution ran to its end
Ran(f, stmt) == [f EXCEPT !.pc = After(stmt), !.ran = Append(@, stmt)]

\* the statement stmt of an execution threw: the catch clause logs the error
\* and returns the error envelope
Caught(f, stmt, exception) ==
    [f EXCEPT !.pc = "done",
              !.ran = @ \o <<stmt, "catch">>,
              !.logged = <<exception>>,
              !.result = Normal(TextOutput(
                    EnvelopeText("error", ErrorToString(exception))))]

\* the platform calls doPost(e) for a request (requests are numbered in the
\* order they arrive)
Receive(p) ==
    /\ reqs[p].pc = "idle"
    /\ \A q \in 1..(p - 1) : reqs[q].pc # "idle"
    /\ \E c \in ConcurrentCalls :
          reqs' = [reqs EXCEPT ![p] =
                      [NoFrame EXCEPT !.pc = Statements[1], !.e = c[1], !.storeOk = c[2]]]
    /\ UNCHANGED <<relayVars, trackerVars>>

\* const data = JSON.parse(e.postData.contents);
Parse(p) ==
    /\ reqs[p].pc = "parse"
    /\ LET f == reqs[p]
           postData == GetProp(f.e, "postData")
           contents == GetProp(postData.value, "contents")
           data == JSON_parse(contents.value)
       IN  reqs' = [reqs EXCEPT ![p] =
                IF postData.type = "throw" THEN Caught(f, "parse", postData.value)
                ELSE IF contents.type = "throw" THEN Caught(f, "parse", contents.value)
                ELSE IF data.type = "throw" THEN Caught(f, "parse", data.value)
                ELSE [Ran(f, "parse") EXCEPT !.data = data.value]]
    /\ UNCHANGED <<relayVars, trackerVars>>

\* const ss = ...getActiveSpreadsheet(); const sheet = ss.getSheetByName(SHEET_NAME);
\* if (!sheet) throw new Error(...)
Locate(p) ==
    /\ reqs[p].pc = "locate"
    /\ LET f == reqs[p]
           sheet == getSheetByName(ss, globals.SHEET_NAME)
       IN  reqs' = [reqs EXCEPT ![p] =
                IF ~Truthy(sheet)
                THEN Caught(f, "locate", SheetNotFound(globals.SHEET_NAME))
                ELSE [Ran(f, "locate") EXCEPT !.sheet = sheet]]
    /\ UNCHANGED <<relayVars, trackerVars>>

\* const rowData = [data.first_name || '', ..., data.date_joined || new Date()...];
Build(p) ==
    /\ reqs[p].pc = "build"
    /\ LET f == reqs[p]
           row == rowData(f.data, now)
       IN  reqs' = [reqs EXCEPT ![p] =
                IF row.type = "throw"
                THEN [Caught(f, "build", row.value) EXCEPT !.today = now]
                ELSE [Ran(f, "build") EXCEPT !.rowData = row.value, !.today = now]]
    /\ UNCHANGED <<relayVars, trackerVars>>

\* sheet.appendRow(rowData);
AppendRow(p) ==
    /\ reqs[p].pc = "append"
    /\ LET f == reqs[p]
           a == appendRow(ss, f.sheet, f.rowData, f.storeOk)
       IN  /\ ss' = a.book
           /\ reqs' = [reqs EXCEPT ![p] =
                IF a.completion.type = "throw"
                THEN Caught(f, "append", a.completion.value)
                ELSE Ran(f, "append")]
    /\ UNCHANGED <<globals, now, e, call, result, hist, twin, trackerVars>>

\* return ContentService.createTextOutput(JSON.stringify({ status: 'success', ... }))
Return(p) ==
    /\ reqs[p].pc = "return"
    /\ reqs' = [reqs EXCEPT ![p] =
            [Ran(reqs[p], "return") EXCEPT !.result = Normal(TextOutput(
                EnvelopeText("success", "Registration saved successfully")))]]
    /\ UNCHANGED <<relayVars, trackerVars>>

Step(p) == Parse(p) \/ Locate(p) \/ Build(p) \/ AppendRow(p) \/ Return(p)

NextConcurrent == (\E p \in 1..MaxRequests : Receive(p)) \/ (\E p \in 1..MaxRequests : Step(p)) \/ Tick

SpecConcurrent == InitConcurrent /\ [][NextConcurrent]_vars

(***************************************************************************)
(* The page tracker (assets/js/tracking.js): strings and the document      *)
(***************************************************************************)
\* s.trim(): without the blanks at either end
trim(s) ==
    CHOOSE t \in
        {IF \A i \in 1..Len(v) : SubSeq(v, i, i) = " " THEN ""
         ELSE SubSeq(v,
                CHOOSE i \in 1..Len(v) :
                    SubSeq(v, i, i) # " " /\ \A j \in 1..(i - 1) : SubSeq(v, j, j) = " ",
                CHOOSE i \in 1..Len(v) :
                    SubSeq(v, i, i) # " " /\ \A j \in (i + 1)..Len(v) : SubSeq(v, j, j) = " ")
            : v \in {s}} : TRUE

\* s.substring(0, end)
substring(s, end) ==
    CHOOSE t \in {IF Len(v) > end THEN SubSeq(v, 1, end) ELSE v : v \in {s}} : TRUE

\* an element: tag, class list, attributes (and the value property of a form
\* control), the text it holds itself, and its parent (0: none).  A document
\* is a sequence of elements in document order; an element reference is its
\* position, 0 is null.
El(tag, classes, attrs, parent, text) ==
    [tag |-> tag, classes |-> classes, attrs |-> attrs, parent |-> parent, text |-> text]
NoAttrs == [n \in {} |-> ""]

\* a is x or an ancestor of x
RECURSIVE Contains(_, _, _)
Contains(nodes, a, x) == x # 0 /\ (x = a \/ Contains(nodes, a, nodes[x].parent))

\* x and its ancestors, innermost first: the path a bubbling event takes
RECURSIVE Path(_, _)
Path(nodes, x) == IF x = 0 THEN <<>> ELSE <<x>> \o Path(nodes, nodes[x].parent)

\* el.textContent: the text of the element and of everything below it, in
\* document order
textContent(nodes, x) ==
    LET upTo[i \in 0..Len(nodes)] ==
            IF i = 0 THEN ""
            ELSE upTo[i - 1] \o (IF Contains(nodes, x, i) THEN nodes[i].text ELSE "")
    IN  upTo[Len(nodes)]

\* el.getAttribute(name) || fallback
getAttributeOr(el, name, fallback) ==
    IF name \in DOMAIN el.attrs /\ el.attrs[name] # "" THEN el.attrs[name] ELSE fallback

\* el.value of a form control
value(el) == IF "value" \in DOMAIN el.attrs THEN el.attrs["value"] ELSE ""

\* the parts of a selector: [name*="part"], [name="v"], `.c tag`
AttrHas(nodes, x, name, part) ==
    name \in DOMAIN nodes[x].attrs /\ Includes(nodes[x].attrs[name], part)
AttrIs(nodes, x, name, v) ==
    name \in DOMAIN nodes[x].attrs /\ nodes[x].attrs[name] = v
Under(nodes, x, c) ==
    \E a \in DOMAIN nodes : a # x /\ Contains(nodes, a, x) /\ c \in nodes[a].classes

\* el.matches(selector), for the selectors the script uses (and a[href],
\* the links the browser follows)
matches(nodes, x, selector) ==
    CASE selector = ".btn--primary, .btn--secondary, .nav-cta, .btn-subscribe, .btn-gold, .btn" ->
            \E c \in {"btn--primary", "btn--secondary", "nav-cta", "btn-subscribe",
                      "btn-gold", "btn"} : c \in nodes[x].classes
      [] selector = ".job-card, .job-card__title a, a[href*=\"/jobs/\"]" ->
            \/ "job-card" \in nodes[x].classes
            \/ nodes[x].tag \in {"a"} /\ Under(nodes, x, "job-card__title")
            \/ nodes[x].tag \in {"a"} /\ AttrHas(nodes, x, "href", "/jobs/")
      [] selector = "form[action*=\"substack.com/subscribe\"], .cta-section__form" ->
            \/ nodes[x].tag \in {"form"}
                    /\ AttrHas(nodes, x, "action", "substack.com/subscribe")
            \/ "cta-section__form" \in nodes[x].classes
      [] selector = ".cta-comparison__card a, .tool-card a" ->
            nodes[x].tag \in {"a"}
                /\ (Under(nodes, x, "cta-comparison__card") \/ Under(nodes, x, "tool-card"))
      [] selector = "a[target=\"_blank\"]" ->
            nodes[x].tag \in {"a"} /\ AttrIs(nodes, x, "target", "_blank")
      [] selector = ".salary-filters select, .salary-filters input, .filter-bar select, .filter-bar input" ->
            nodes[x].tag \in {"select", "input"}
                /\ (Under(nodes, x, "salary-filters") \/ Under(nodes, x, "filter-bar"))
      [] selector = "a[href*=\"/glossary/\"]" ->
            nodes[x].tag \in {"a"} /\ AttrHas(nodes, x, "href", "/glossary/")
      [] selector = "details" -> nodes[x].tag \in {"details"}
      [] selector = ".job-card__title" -> "job-card__title" \in nodes[x].classes
      [] selector = ".job-card" -> "job-card" \in nodes[x].classes
      [] selector = "h3, h2, .job-card__title" ->
            nodes[x].tag \in {"h3", "h2"} \/ "job-card__title" \in nodes[x].classes
      [] selector = "input[type=\"email\"]" ->
            nodes[x].tag \in {"input"} /\ AttrIs(nodes, x, "type", "email")
      [] selector = "summary" -> nodes[x].tag \in {"summary"}
      [] selector = "a[href]" -> nodes[x].tag \in {"a"} /\ "href" \in DOMAIN nodes[x].attrs

\* document.querySelectorAll(selector): the matching elements in document order
querySelectorAll(nodes, selector) ==
    SelectSeq([i \in 1..Len(nodes) |-> i], LAMBDA x : matches(nodes, x, selector))

\* root.querySelector(selector): the first matching element below root, or null
querySelector(nodes, root, selector) ==
    CHOOSE r \in
        {IF found = {} THEN 0 ELSE CHOOSE x \in found : \A y \in found : x <= y
            : found \in {{x \in DOMAIN nodes :
                            /\ x # root
                            /\ Contains(nodes, root, x)
                            /\ matches(nodes, x, selector)}}} : TRUE

\* el.closest(selector): the element itself or its nearest ancestor that
\* matches, or null
closest(nodes, x, selector) ==
    CHOOSE r \in
        {IF \A i \in 1..Len(path) : ~matches(nodes, path[i], selector) THEN 0
         ELSE path[CHOOSE i \in 1..Len(path) :
                    /\ matches(nodes, path[i], selector)
                    /\ \A j \in 1..(i - 1) : ~matches(nodes, path[j], selector)]
            : path \in {Path(nodes, x)}} : TRUE

(***************************************************************************)
(* The page tracker: the helper, the eight listeners, the registration     *)
(***************************************************************************)
\* what one run of a listener did: how it ended, the calls it made to gtag,
\* and whether it called preventDefault or stopPropagation on its event
Handled(completion, calls) ==
    [completion |-> completion, calls |-> calls,
     defaultPrevented |-> FALSE, propagationStopped |-> FALSE]

\* gtag('event', eventName, params)
GtagCall(eventName, params) == [command |-> "event", name |-> eventName, params |-> params]

\* a variant that reports every event twice
trackTwice(eventName, params, w) ==
    IF w.gtag = "function"
    THEN Handled(Normal(Undefined),
                 <<GtagCall(eventName, params), GtagCall(eventName, params)>>)
    ELSE Handled(Throw(Exception("ReferenceError", "gtag is not defined")), <<>>)

\* function track(eventName, params) { gtag('event', eventName, params); }
track(eventName, params, w) ==
    IF w.gtag = "function"
    THEN Handled(Normal(Undefined), <<GtagCall(eventName, params)>>)
    ELSE Handled(Throw(Exception("ReferenceError", "gtag is not defined")), <<>>)

\* CTA button: click
OnCtaClick(doc, x, w) ==
    LET text == substring(trim(textContent(doc.nodes, x)), 60)
        href == getAttributeOr(doc.nodes[x], "href", "")
    IN  track("cta_click",
              [cta_text |-> text, cta_url |-> href, page_location |-> w.pathname], w)

\* a variant that reads the heading's text without looking whether there is
\* a heading
OnJobCardClickUnchecked(doc, x, w) ==
    CHOOSE r \in
        {IF h3 = 0
         THEN Handled(Throw(Exception("TypeError",
                "Cannot read properties of null (reading 'textContent')")), <<>>)
         ELSE track("job_card_click",
                    [job_title |-> trim(textContent(doc.nodes, h3)),
                     link_url |-> getAttributeOr(doc.nodes[x], "href", ""),
                     page_location |-> w.pathname], w)
            : h3 \in
                {IF titleEl # 0
                 THEN querySelector(doc.nodes, titleEl, "h3, h2, .job-card__title")
                 ELSE 0
                    : titleEl \in
                        {IF inside # 0 THEN inside ELSE closest(doc.nodes, x, ".job-card")
                            : inside \in {querySelector(doc.nodes, x, ".job-card__title")}}}}
        : TRUE

\* job card, job title link, link to /jobs/: click
OnJobCardClick(doc, x, w) ==
    CHOOSE r \in
        {track("job_card_click",
               [job_title |-> IF heading # "" THEN heading
                              ELSE substring(trim(textContent(doc.nodes, x)), 80),
                link_url |-> getAttributeOr(doc.nodes[x], "href", ""),
                page_location |-> w.pathname], w)
            : heading \in
                {IF h3 # 0 THEN trim(textContent(doc.nodes, h3)) ELSE ""
                    : h3 \in
                        {IF titleEl # 0
                         THEN querySelector(doc.nodes, titleEl, "h3, h2, .job-card__title")
                         ELSE 0
                            : titleEl \in
                                {IF inside # 0 THEN inside
                                 ELSE closest(doc.nodes, x, ".job-card")
                                    : inside \in
                                        {querySelector(doc.nodes, x, ".job-card__title")}}}}}
        : TRUE

\* newsletter form: submit
OnNewsletterSubmit(doc, x, w) ==
    CHOOSE r \in
        {track("newsletter_signup",
               [form_location |-> w.pathname,
                has_email |-> email # 0 /\ value(doc.nodes[email]) # ""], w)
            : email \in {querySelector(doc.nodes, x, "input[type=\"email\"]")}} : TRUE

\* tool review link: click
OnToolClick(doc, x, w) ==
    track("tool_cta_click",
          [tool_name |-> substring(trim(textContent(doc.nodes, x)), 40),
           tool_url |-> getAttributeOr(doc.nodes[x], "href", ""),
           page_location |-> w.pathname], w)

\* external link: click
OnOutboundClick(doc, x, w) ==
    track("outbound_click",
          [link_text |-> substring(trim(textContent(doc.nodes, x)), 60),
           link_url |-> getAttributeOr(doc.nodes[x], "href", ""),
           page_location |-> w.pathname], w)

\* salary filter control: change
OnFilterChange(doc, x, w) ==
    track("salary_filter",
          [filter_name |-> getAttributeOr(doc.nodes[x], "name",
                                getAttributeOr(doc.nodes[x], "id", "unknown")),
           filter_value |-> value(doc.nodes[x]),
           page_location |-> w.pathname], w)

\* glossary link: click
OnGlossaryClick(doc, x, w) ==
    track("glossary_click",
          [term |-> trim(textContent(doc.nodes, x)),
           link_url |-> getAttributeOr(doc.nodes[x], "href", ""),
           page_location |-> w.pathname], w)

\* a variant that reports every toggle, the closing one too
OnDetailsToggleAlways(doc, x, w) ==
    CHOOSE r \in
        {track("faq_expand",
               [question |-> IF summary # 0
                             THEN substring(trim(textContent(doc.nodes, summary)), 80)
                             ELSE "",
                page_location |-> w.pathname], w)
            : summary \in {querySelector(doc.nodes, x, "summary")}} : TRUE

\* details: toggle
OnDetailsToggle(doc, x, w) ==
    IF x \in doc.open
    THEN CHOOSE r \in
            {track("faq_expand",
                   [question |-> IF summary # 0
                                 THEN substring(trim(textContent(doc.nodes, summary)), 80)
                                 ELSE "",
                    page_location |-> w.pathname], w)
                : summary \in {querySelector(doc.nodes, x, "summary")}} : TRUE
    ELSE Handled(Normal(Undefined), <<>>)

\* the listener of a registration, run on its element
Callback(l, doc, w) ==
    CASE l.group = "cta" -> OnCtaClick(doc, l.el, w)
      [] l.group = "job" -> OnJobCardClick(doc, l.el, w)
      [] l.group = "newsletter" -> OnNewsletterSubmit(doc, l.el, w)
      [] l.group = "tool" -> OnToolClick(doc, l.el, w)
      [] l.group = "outbound" -> OnOutboundClick(doc, l.el, w)
      [] l.group = "filter" -> OnFilterChange(doc, l.el, w)
      [] l.group = "glossary" -> OnGlossaryClick(doc, l.el, w)
      [] l.group = "details" -> OnDetailsToggle(doc, l.el, w)

\* querySelectorAll(selector).forEach(el => el.addEventListener(type, ...))
AddListeners(nodes, selector, type, group) ==
    CHOOSE ls \in
        {[i \in 1..Len(found) |-> [el |-> found[i], type |-> type, group |-> group]]
            : found \in {querySelectorAll(nodes, selector)}} : TRUE

\* a variant of the guard that lets every environment pass
GuardPassesAlways(w) == TRUE

\* the guard: typeof gtag === 'function'
GuardPasses(w) == w.gtag = "function"

\* the body of the script: the guard, then the eight registrations in order
Tracker(nodes, w) ==
    IF ~GuardPasses(w) THEN <<>>
    ELSE AddListeners(nodes, ".btn--primary, .btn--secondary, .nav-cta, .btn-subscribe, .btn-gold, .btn", "click", "cta")
            \o AddListeners(nodes, ".job-card, .job-card__title a, a[href*=\"/jobs/\"]", "click", "job")
            \o AddListeners(nodes, "form[action*=\"substack.com/subscribe\"], .cta-section__form", "submit", "newsletter")
            \o AddListeners(nodes, ".cta-comparison__card a, .tool-card a", "click", "tool")
            \o AddListeners(nodes, "a[target=\"_blank\"]", "click", "outbound")
            \o AddListeners(nodes, ".salary-filters select, .salary-filters input, .filter-bar select, .filter-bar input", "change", "filter")
            \o AddListeners(nodes, "a[href*=\"/glossary/\"]", "click", "glossary")
            \o AddListeners(nodes, "details", "toggle", "details")

(***************************************************************************)
(* The page tracker: the pages, the events and the browser                 *)
(***************************************************************************)
\* a text of 92 characters
LongText ==
    "Senior Staff Machine Learning Engineer, Large Language Model Inference Platform (Remote, US)"

\* the job board: a card whose title element is the heading and holds the
\* link; a card that is itself the link, with a heading inside its title
\* element; a card without a heading; links to /jobs/ outside any card
PageJobs ==
    [pathname |-> "/jobs/", open |-> {},
     nodes |-> <<
        El("body", {}, NoAttrs, 0, ""),
        El("div", {"job-card"}, NoAttrs, 1, ""),
        El("h3", {"job-card__title"}, NoAttrs, 2, ""),
        El("a", {}, [href |-> "/jobs/ml-engineer/"], 3, " ML Engineer "),
        El("p", {}, NoAttrs, 2, "Acme"),
        El("a", {"job-card"}, [href |-> "/jobs/prompt-engineer/", target |-> "_blank"], 1, ""),
        El("div", {"job-card__title"}, NoAttrs, 6, ""),
        El("h3", {}, NoAttrs, 7, " Prompt Engineer "),
        El("span", {}, NoAttrs, 6, "Remote"),
        El("div", {"job-card"}, NoAttrs, 1, "  " \o LongText \o " "),
        El("a", {}, [href |-> "/jobs/"], 1, ""),
        El("a", {}, [href |-> "https://example.com/jobs/42", target |-> "_blank"], 1, LongText) >>]

\* the home page: a button that opens another site, a button without href,
\* a tool card, a glossary link
PageHome ==
    [pathname |-> "/", open |-> {},
     nodes |-> <<
        El("body", {}, NoAttrs, 0, ""),
        El("a", {"btn", "btn--primary"},
           [href |-> "https://pecollective.substack.com", target |-> "_blank"], 1, LongText),
        El("a", {"nav-cta"}, NoAttrs, 1, " Join "),
        El("div", {"tool-card"}, NoAttrs, 1, "Cursor"),
        El("a", {}, [href |-> "/tools/cursor/"], 4, " " \o LongText),
        El("a", {}, [href |-> "/glossary/rag/"], 1, " RAG "),
        El("div", {"cta-comparison__card"}, NoAttrs, 1, ""),
        El("a", {}, NoAttrs, 7, "") >>]

\* the salary page: a signup form with an address, one without an email
\* field, one with an empty email field; filters with a name, with an id
\* only, with neither
PageSalaries ==
    [pathname |-> "/salaries/", open |-> {},
     nodes |-> <<
        El("body", {}, NoAttrs, 0, ""),
        El("form", {}, [action |-> "https://pecollective.substack.com/subscribe",
                        target |-> "_blank"], 1, ""),
        El("input", {}, [type |-> "email", value |-> "ann@example.com"], 2, ""),
        El("form", {"cta-section__form"}, [action |-> "/subscribe"], 1, ""),
        El("input", {}, [type |-> "text", value |-> "Ann"], 4, ""),
        El("form", {}, [action |-> "https://pecollective.substack.com/subscribe"], 1, ""),
        El("input", {}, [type |-> "email"], 6, ""),
        El("div", {"salary-filters"}, NoAttrs, 1, ""),
        El("select", {}, [name |-> "role", value |-> "ml-engineer"], 8, ""),
        El("div", {"filter-bar"}, NoAttrs, 1, ""),
        El("input", {}, [id |-> "q", value |-> "remote"], 10, ""),
        El("input", {}, NoAttrs, 10, "") >>]

\* the FAQ: a closed entry, an entry without a summary, an entry that is
\* open when the page loads
PageFaq ==
    [pathname |-> "/faq/", open |-> {6},
     nodes |-> <<
        El("body", {}, NoAttrs, 0, ""),
        El("details", {}, NoAttrs, 1, ""),
        El("summary", {}, NoAttrs, 2, " What is prompt engineering? "),
        El("p", {}, NoAttrs, 2, "Writing instructions for a model."),
        El("details", {}, NoAttrs, 1, "No summary here."),
        El("details", {}, NoAttrs, 1, ""),
        El("summary", {}, NoAttrs, 6, LongText) >>]

Pages == {PageJobs, PageHome, PageSalaries, PageFaq}

\* the registrations an event reaches, in the order their listeners run: the
\* target's, then (click, submit and change bubble, toggle does not) those of
\* each ancestor; on one element in the order they were added
Reached(ls, nodes, type, target) ==
    CHOOSE queue \in
        {LET upTo[i \in 0..Len(path)] ==
                IF i = 0 THEN <<>>
                ELSE upTo[i - 1]
                        \o SelectSeq(ls, LAMBDA l : l.el = path[i] /\ l.type = type)
         IN  upTo[Len(path)]
            : path \in {IF type = "toggle" THEN <<target>> ELSE Path(nodes, target)}}
        : TRUE

\* the browser runs the listeners one after the other; a listener that throws
\* does not keep the next one from running, one that stops propagation keeps
\* the event from the elements further up
Dispatch(queue, doc, w) ==
    CHOOSE ran \in
        {[i \in 1..Cardinality({k \in 1..Len(all) :
                    \A j \in 1..(k - 1) :
                        all[j].propagationStopped => all[j].el = all[k].el}) |-> all[i]]
            : all \in
                {[i \in 1..Len(queue) |->
                    CHOOSE f \in
                        {[group |-> queue[i].group, el |-> queue[i].el,
                          completion |-> r.completion, calls |-> r.calls,
                          defaultPrevented |-> r.defaultPrevented,
                          propagationStopped |-> r.propagationStopped]
                            : r \in {Callback(queue[i], doc, w)}} : TRUE]}}
        : TRUE

\* the calls to gtag of a sequence of listener runs
RECURSIVE CallsOf(_)
CallsOf(ran) == IF ran = <<>> THEN <<>> ELSE Head(ran).calls \o CallsOf(Tail(ran))

\* what the browser does with an event no listener has cancelled: a click in
\* a link follows it (in this tab, or in a new one), a submit sends the form
NativeAction(nodes, type, target) ==
    CASE type = "click" ->
            CHOOSE a \in
                {IF link = 0 THEN "none"
                 ELSE IF AttrIs(nodes, link, "target", "_blank") THEN "open"
                 ELSE "navigate"
                    : link \in {closest(nodes, target, "a[href]")}} : TRUE
      [] type = "submit" ->
            IF AttrIs(nodes, target, "target", "_blank") THEN "send" ELSE "submit"
      [] OTHER -> "none"

\* the page has been left for another one
Left == fired.native \in {"navigate", "submit"}

InitTracker ==
    /\ globals = [SHEET_NAME |-> SHEET_NAME, COLUMNS |-> COLUMNS]
    /\ ss = [n \in {SHEET_NAME} |-> <<HeaderRow>>]
    /\ now = StartDate
    /\ e = Undefined
    /\ call = [NoCall EXCEPT !.prior = ss]
    /\ result = Normal(Undefined)
    /\ hist = [seed |-> ss, appended |-> <<>>, successes |-> 0]
    /\ twin = [NoTwin EXCEPT !.book = ss, !.prior = ss]
    /\ reqs = <<>>
    /\ NoPage

\* a page is loaded and parsed, then the script runs once; gtag is already
\* there, or it is not
Load ==
    /\ document = Null \/ Left
    /\ \E pg \in Pages, g \in {"function", "undefined"} :
       \E w \in {[gtag |-> g, pathname |-> pg.pathname]} :
       \E ls \in {Tracker(pg.nodes, w)} :
            /\ window' = w
            /\ document' = [nodes |-> pg.nodes, open |-> pg.open]
            /\ listeners' = ls
            /\ dataLayer' = <<>>
            /\ fired' = [NoInteraction EXCEPT !.sink = g]
    /\ UNCHANGED <<relayVars, reqs>>

\* the analytics snippet defines gtag after the tracker has run
SinkArrives ==
    /\ document # Null /\ ~Left
    /\ window.gtag # "function"
    /\ window' = [window EXCEPT !.gtag = "function"]
    /\ UNCHANGED <<relayVars, reqs, document, listeners, dataLayer, fired>>

\* one user interaction: the event is dispatched, the listeners it reaches
\* run to their end one after the other, then the browser acts
Interact(type, target) ==
    /\ document # Null /\ ~Left
    /\ fired.count < MaxInteractions
    /\ \E doc \in {IF type = "toggle"
                   THEN [document EXCEPT !.open = IF target \in @ THEN @ \ {target}
                                                  ELSE @ \cup {target}]
                   ELSE document} :
       \E queue \in {Reached(listeners, doc.nodes, type, target)} :
       \E ran \in {Dispatch(queue, doc, window)} :
            /\ document' = doc
            /\ dataLayer' = dataLayer \o CallsOf(ran)
            /\ fired' = [fired EXCEPT
                    !.count = @ + 1,
                    !.opened = IF type = "toggle" /\ target \in doc.open THEN @ + 1 ELSE @,
                    !.type = type, !.target = target, !.ran = ran,
                    !.native = IF \E i \in 1..Len(ran) : ran[i].defaultPrevented
                               THEN "none"
                               ELSE NativeAction(doc.nodes, type, target)]
    /\ UNCHANGED <<relayVars, reqs, window, listeners>>

\* the elements of the page with one of these tags
Elements(tags) ==
    IF document = Null THEN {}
    ELSE {x \in DOMAIN document.nodes : document.nodes[x].tag \in tags}

\* a click on an element (a click on a details or its summary is the Toggle)
Click ==
    \E x \in Elements({"body", "div", "h3", "a", "p", "span", "form", "input", "select"}) :
        Interact("click", x)
Submit == \E x \in Elements({"form"}) : Interact("submit", x)
Change == \E x \in Elements({"select", "input"}) : Interact("change", x)
Toggle == \E x \in Elements({"details"}) : Interact("toggle", x)

NextTracker == Load \/ SinkArrives \/ Click \/ Submit \/ Change \/ Toggle

SpecTracker == InitTracker /\ [][NextTracker]_vars

(***************************************************************************)
(* The page tracker on a page that other scripts change after it has run   *)
(***************************************************************************)
\* the page as it was parsed, before the script ran
Parsed == CHOOSE pg \in Pages : pg.pathname = window.pathname

\* a variant in which the page is scanned again after every change
MutateAndRescan ==
    /\ document # Null /\ ~Left
    /\ Cardinality({y \in DOMAIN document.nodes :
                        document.nodes[y] # Parsed.nodes[y]}) < MaxMutations
    /\ \E x \in Elements({"a", "div", "form"}) :
          /\ document.nodes[x] = Parsed.nodes[x]
          /\ \E classes \in {IF document.nodes[x].classes = {} THEN {"btn"} ELSE {}} :
             \E nodes \in {[document.nodes EXCEPT ![x].classes = classes]} :
                /\ document' = [document EXCEPT !.nodes = nodes]
                /\ listeners' = Tracker(nodes, window)
    /\ UNCHANGED <<relayVars, reqs, window, dataLayer, fired>>

\* another script changes a link, a box or a form after the tracker has run:
\* it makes an element without classes a button (el.className = 'btn') and
\* takes the classes of any other away (el.className = '').  The tracker has
\* returned; nothing of it runs.
Mutate ==
    /\ document # Null /\ ~Left
    /\ Cardinality({y \in DOMAIN document.nodes :
                        document.nodes[y] # Parsed.nodes[y]}) < MaxMutations
    /\ \E x \in Elements({"a", "div", "form"}) :
          /\ document.nodes[x] = Parsed.nodes[x]
          /\ \E classes \in {IF document.nodes[x].classes = {} THEN {"btn"} ELSE {}} :
                document' = [document EXCEPT !.nodes[x].classes = classes]
    /\ UNCHANGED <<relayVars, reqs, window, listeners, dataLayer, fired>>

NextMutable == NextTracker \/ Mutate

SpecMutable == InitTracker /\ [][NextMutable]_vars

(***************************************************************************)
(* What the properties below read off a state                              *)
(***************************************************************************)
\* the rows of the configured tab of a spreadsheet (none when it is missing)
RowsOf(book) == IF SHEET_NAME \in DOMAIN book THEN book[SHEET_NAME] ELSE <<>>

SheetExists == SHEET_NAME \in DOMAIN call.prior
Posted == call.fn = "doPost"
Grew == Len(RowsOf(ss)) > Len(RowsOf(call.prior))
LastRow == RowsOf(ss)[Len(RowsOf(ss))]

\* the event carries a body: e.postData.contents can be read
HasBody == GetProp(e, "postData").type = "normal"
            /\ GetProp(GetProp(e, "postData").value, "contents").type = "normal"
Body == GetProp(GetProp(e, "postData").value, "contents").value
BodyParses == HasBody /\ JSON_parse(Body).type = "normal"
Data == JSON_parse(Body).value

\* field number i of the submitted data d (undefined when it is not there)
Present(d, i) == d.t = "object" /\ FIELDS[i] \in DOMAIN d.o
Field(d, i) == IF Present(d, i) THEN d.o[FIELDS[i]] ELSE Undefined
NonEmpty(v) ==
    ~(v \in {Undefined, Null, Str(""), Bool(FALSE)} \/ (v.t = "number" /\ v.n = 0))

Columns == 1..7
SuccessEnvelope ==
    [status |-> Str("success"), message |-> Str("Registration saved successfully")]
SavedAs(row) ==
    /\ Returned(result)
    /\ Envelope(result.value) = SuccessEnvelope
    /\ ss = [call.prior EXCEPT ![SHEET_NAME] = Append(@, row)]

\* the en-US text of the date the call read
TodayText == IF call.today = StartDate THEN "2/14/2026" ELSE "2/15/2026"

(***************************************************************************)
(* C1                                                                      *)
(***************************************************************************)
\* C1 as stated: whenever the body is a JSON object holding all seven fields
\* and the sheet exists, doPost appends the row of the seven input values in
\* column order and returns the success envelope.
C1_AllFieldsPresentSaved ==
    (Posted /\ SheetExists /\ BodyParses) =>
        LET d == Data
        IN  (\A i \in Columns : Present(d, i)) => SavedAs([i \in Columns |-> Field(d, i)])

\* C1 amended: the same, for seven fields that are present and non-empty (not
\* "", null, 0 or false) and an append call that does not fail.
C1_AllFieldsNonEmptySaved ==
    (Posted /\ SheetExists /\ BodyParses /\ call.storeOk) =>
        LET d == Data
        IN  (\A i \in Columns : Present(d, i) /\ NonEmpty(Field(d, i)))
                => SavedAs([i \in Columns |-> Field(d, i)])

C1_Witness ==
    /\ Posted /\ SheetExists /\ BodyParses /\ call.storeOk
    /\ \A i \in Columns : Present(Data, i) /\ NonEmpty(Field(Data, i))
    /\ LastRow = <<Str("Test"), Str("User"), Str("test@example.com"),
                   Str("https://linkedin.com/in/testuser"), Str("Test Company"),
                   Str("Test Engineer"), Str("02/14/2026")>>
    /\ Status(result) = "success"

(***************************************************************************)
(* C2                                                                      *)
(***************************************************************************)
\* C2: every row doPost appends has exactly 7 cells in the order first_name,
\* last_name, email, linkedin_url, company, job_title, date_joined: a non-empty
\* input field is in its own column, a missing field's cell is the empty
\* string, a missing date_joined is the current date as en-US text, and no
\* cell is null or undefined.
C2_RowShape ==
    (Posted /\ Grew) =>
        LET d == Data
            row == LastRow
        IN  /\ DOMAIN row = Columns
            /\ \A i \in Columns :
                  /\ row[i].t \notin {"null", "undefined"}
                  /\ NonEmpty(Field(d, i)) => row[i] = Field(d, i)
                  /\ ~Present(d, i) => row[i] = Str(IF i = 7 THEN TodayText ELSE "")

C2_Witness ==
    /\ Posted /\ Grew
    /\ Data = EmptyObject
    /\ LastRow = <<Str(""), Str(""), Str(""), Str(""), Str(""), Str(""), Str("2/15/2026")>>

(***************************************************************************)
(* C3                                                                      *)
(***************************************************************************)
\* C3: every call of doPost returns (it never throws), and what it returns is
\* the success envelope or {status: "error", message: <the caught exception
\* as a string>}.
C3_AlwaysAnEnvelope ==
    Posted =>
        /\ Returned(result)
        /\ \/ Envelope(result.value) = SuccessEnvelope /\ call.logged = <<>>
           \/ /\ Len(call.logged) = 1
              /\ Envelope(result.value) =
                    [status |-> Str("error"),
                     message |-> Str(call.logged[1].name \o ": " \o call.logged[1].message)]

C3_Witness ==
    /\ Posted /\ e = Undefined
    /\ Status(result) = "error"
    /\ Message(result) = "TypeError: Cannot read properties of undefined (reading 'postData')"

(***************************************************************************)
(* C4                                                                      *)
(***************************************************************************)
\* C4: a doPost call that returns "success" has added exactly one row to the
\* destination sheet and nothing else; one that returns "error" has left the
\* whole spreadsheet as it was.
C4_OneRowOrNone ==
    Posted =>
        /\ Status(result) \in {"success", "error"}
        /\ Status(result) = "success" =>
              /\ SheetExists
              /\ Len(RowsOf(ss)) = Len(RowsOf(call.prior)) + 1
              /\ \A n \in DOMAIN ss \ {SHEET_NAME} : ss[n] = call.prior[n]
        /\ Status(result) = "error" => ss = call.prior

C4_Witness ==
    /\ Posted /\ ~call.storeOk
    /\ Len(call.rowData) = 7
    /\ Status(result) = "error"
    /\ ss = call.prior

(***************************************************************************)
(* C5                                                                      *)
(***************************************************************************)
\* C5: when the body is not valid JSON, doPost appends no row and returns an
\* error envelope whose message is the parser's error text.
C5_MalformedBody ==
    (Posted /\ HasBody /\ ~BodyParses) =>
        /\ ss = call.prior
        /\ Status(result) = "error"
        /\ Message(result) = "SyntaxError: " \o JSON_parse(Body).value.message

C5_Witness ==
    /\ Posted /\ SheetExists /\ HasBody /\ ~BodyParses
    /\ Body.t = "string" /\ Len(Body.toks) > 1
    /\ Message(result) = "SyntaxError: Unexpected token in JSON"

(***************************************************************************)
(* C6                                                                      *)
(***************************************************************************)
\* C6 as stated: when the configured sheet does not exist, doPost appends no
\* row and returns an error envelope whose message contains the sheet name.
C6_MissingSheetNamed ==
    (Posted /\ ~SheetExists) =>
        /\ ss = call.prior
        /\ Status(result) = "error"
        /\ Includes(Message(result), globals.SHEET_NAME)

\* C6 amended: when the configured sheet does not exist, doPost appends no row
\* and returns an error envelope; the message contains the sheet name
\* whenever the request has a body that parses as JSON.
C6_MissingSheetNamedIfParsed ==
    (Posted /\ ~SheetExists) =>
        /\ ss = call.prior
        /\ Status(result) = "error"
        /\ BodyParses => Includes(Message(result), globals.SHEET_NAME)

C6_Witness ==
    /\ Posted /\ ~SheetExists /\ BodyParses
    /\ Message(result) =
          "Error: Sheet \"Registrants\" not found. Check the SHEET_NAME configuration."

(***************************************************************************)
(* C7                                                                      *)
(***************************************************************************)
\* C7: doGet changes nothing in the spreadsheet and returns status "ok",
\* whatever its input and whether or not the destination sheet exists.
C7_GetIsReadOnly ==
    call.fn = "doGet" =>
        /\ ss = call.prior
        /\ Returned(result)
        /\ Status(result) = "ok"

C7_Witness ==
    /\ call.fn = "doGet" /\ ~SheetExists /\ e # Undefined
    /\ Status(result) = "ok"

(***************************************************************************)
(* C8                                                                      *)
(***************************************************************************)
\* C8: there is no deduplication: the number of rows added to the sheet since
\* the start equals the number of success responses, also when the same
\* submission is posted twice.
C8_RowsEqualSuccesses ==
    Len(RowsOf(ss)) - Len(RowsOf(hist.seed)) = hist.successes

C8_Witness ==
    /\ hist.successes = 2
    /\ Len(RowsOf(ss)) = Len(RowsOf(hist.seed)) + 2
    /\ RowsOf(ss)[Len(RowsOf(ss)) - 1] = LastRow

(***************************************************************************)
(* C9                                                                      *)
(***************************************************************************)
\* C9: a successful doPost puts its row last and leaves the earlier rows where
\* they were, so the sheet is its first rows followed by the appended rows in
\* the order of their appends; no other tab changes.
C9_AppendOrder ==
    /\ RowsOf(ss) = RowsOf(hist.seed) \o hist.appended
    /\ \A n \in DOMAIN ss \ {SHEET_NAME} : ss[n] = hist.seed[n]
    /\ (Posted /\ Status(result) = "success") =>
            RowsOf(ss) = Append(RowsOf(call.prior), call.rowData)

C9_Witness ==
    /\ Len(hist.appended) = 2
    /\ hist.appended[1] # hist.appended[2]
    /\ RowsOf(ss) = <<HeaderRow, hist.appended[1], hist.appended[2]>>

(***************************************************************************)
(* C10                                                                     *)
(***************************************************************************)
AddedRows(prior, book) ==
    SubSeq(RowsOf(book), Len(RowsOf(prior)) + 1, Len(RowsOf(book)))

SameAnswer ==
    /\ result = twin.result
    /\ call.rowData = twin.rowData
    /\ AddedRows(call.prior, ss) = AddedRows(twin.prior, twin.book)

SameSheetExistence ==
    (SHEET_NAME \in DOMAIN call.prior) <=> (SHEET_NAME \in DOMAIN twin.prior)

ConfigurationFixed ==
    globals = [SHEET_NAME |-> "Registrants",
               COLUMNS |-> <<"First Name", "Last Name", "Business Email",
                             "LinkedIn URL", "Company", "Job Title", "Date Joined">>]

\* C10 as stated: two deployments with different earlier requests that get
\* the same body on the same date, and agree on whether the sheet exists,
\* return the same response and append the same row; the configured sheet
\* name and column order never change.
C10_DependsOnRequestOnly ==
    /\ ConfigurationFixed
    /\ (twin.paired /\ SameSheetExistence) => SameAnswer

\* C10 amended: the same, for two deployments that also agree on whether the
\* store's append call fails.
C10_DependsOnRequestAndStore ==
    /\ ConfigurationFixed
    /\ (twin.paired /\ SameSheetExistence /\ call.storeOk = twin.storeOk) => SameAnswer

C10_Witness ==
    /\ twin.paired /\ SameSheetExistence /\ call.storeOk = twin.storeOk
    /\ Len(RowsOf(call.prior)) = 2 /\ Len(RowsOf(twin.prior)) = 1
    /\ Status(result) = "success" /\ Status(twin.result) = "success"
    /\ AddedRows(call.prior, ss) = <<RowsOf(call.prior)[2]>>
    /\ AddedRows(twin.prior, twin.book) = AddedRows(call.prior, ss)

(***************************************************************************)
(* C11                                                                     *)
(***************************************************************************)
\* the body of an event that carries one
BodyOf(ev) == GetProp(GetProp(ev, "postData").value, "contents").value

\* an execution has returned; its appendRow call returned; it returned the
\* success envelope
Done(f) == f.pc = "done"
Appended(f) ==
    /\ \E i \in 1..Len(f.ran) : f.ran[i] = "append"
    /\ f.ran[Len(f.ran)] # "catch"
Succeeded(f) ==
    /\ Done(f)
    /\ Returned(f.result)
    /\ Envelope(f.result.value) = SuccessEnvelope

\* the seven values the request's own body maps to on the day it was read
OwnRow(f) == rowData(JSON_parse(BodyOf(f.e)).value, f.today).value

\* C11: when several doPost requests run at once in any interleaving of
\* their statements (appendRow being one step), every request that returns
\* success has appended a row; the rows below the ones the sheet started
\* with are, one for one, the whole rows of the requests whose append
\* returned (each row is some request's own seven values, none is missing
\* and none is there twice); and every request's response is the one it
\* gets when it is served alone.
C11_ConcurrentRequestsIndependent ==
    LET rows == RowsOf(ss)
        first == Len(RowsOf(hist.seed)) + 1
        appended == {p \in 1..MaxRequests : Appended(reqs[p])}
        own == [p \in appended |-> OwnRow(reqs[p])]
    IN  /\ \A p \in 1..MaxRequests : Succeeded(reqs[p]) => p \in appended
        /\ Len(rows) = first - 1 + Cardinality(appended)
        /\ SubSeq(rows, 1, first - 1) = RowsOf(hist.seed)
        /\ \A p \in appended : \E i \in first..Len(rows) : rows[i] = own[p]
        /\ \A i \in first..Len(rows) :
              Cardinality({j \in first..Len(rows) : rows[j] = rows[i]})
                  = Cardinality({p \in appended : own[p] = rows[i]})
        /\ \A p \in 1..MaxRequests :
              Done(reqs[p]) =>
                  reqs[p].result = doPost(reqs[p].e, hist.seed, reqs[p].today,
                                          reqs[p].storeOk, globals).completion

\* two requests have both returned success, and the one that arrived second
\* appended its (different) row first
C11_Witness ==
    /\ Succeeded(reqs[1]) /\ Succeeded(reqs[2])
    /\ reqs[1].rowData # reqs[2].rowData
    /\ Len(RowsOf(ss)) = 3
    /\ RowsOf(ss)[2] = reqs[2].rowData
    /\ RowsOf(ss)[3] = reqs[1].rowData

(***************************************************************************)
(* C12                                                                     *)
(***************************************************************************)
\* C12: if gtag is not a function when the script runs, the script registers
\* no listener at all, and no interaction with the page runs a listener or
\* reaches gtag, whatever follows (gtag may be defined later).
C12_NoSinkNoTracking ==
    fired.sink # "function" =>
        /\ listeners = <<>>
        /\ fired.ran = <<>>
        /\ dataLayer = <<>>

\* the script ran without gtag on a page with tracked elements, gtag was
\* defined afterwards, and the user has since used two tracked elements
C12_Witness ==
    /\ fired.sink = "undefined"
    /\ window.gtag = "function"
    /\ fired.count >= 2
    /\ fired.type \in {"click", "toggle"}
    /\ \E l \in {Tracker(document.nodes, window)[i] :
                    i \in DOMAIN Tracker(document.nodes, window)} : l.el = fired.target
    /\ dataLayer = <<>>

(***************************************************************************)
(* C13                                                                     *)
(***************************************************************************)
\* C13: on a page the tracker has set up, a toggle that closes a details
\* sends nothing and a toggle that opens one sends one faq_expand; so the
\* faq_expand events sent since the page loaded are as many as the times a
\* details went from closed to open.
C13_FaqExpandOnOpenOnly ==
    fired.sink = "function" =>
        /\ Len(SelectSeq(dataLayer, LAMBDA c : c.name = "faq_expand")) = fired.opened
        /\ fired.type = "toggle" =>
                Len(SelectSeq(CallsOf(fired.ran), LAMBDA c : c.name = "faq_expand"))
                    = IF fired.target \in document.open THEN 1 ELSE 0

\* three toggles, the last of them a closing one, after one opening
C13_Witness ==
    /\ fired.sink = "function"
    /\ fired.count = 3
    /\ fired.opened = 1
    /\ fired.type = "toggle"
    /\ fired.target \notin document.open
    /\ Len(dataLayer) = 1

(***************************************************************************)
(* C14                                                                     *)
(***************************************************************************)
\* C14 as stated: one user interaction (one click, submit, change or toggle)
\* causes at most one call to gtag, whatever the page looks like.
C14_AtMostOneCallPerInteraction == Len(CallsOf(fired.ran)) <= 1

(***************************************************************************)
(* C15                                                                     *)
(***************************************************************************)
\* the elements below x
Below(nodes, x) == {y \in DOMAIN nodes : y # x /\ Contains(nodes, x, y)}

\* what is missing where a listener runs on x: an href, a name and an id, an
\* email input or a summary below x, a heading in the job card of x (below x
\* itself when it is in no card)
Missing(nodes, x, what) ==
    CASE what = "href" -> "href" \notin DOMAIN nodes[x].attrs
      [] what = "name/id" -> DOMAIN nodes[x].attrs \cap {"name", "id"} = {}
      [] what = "email" ->
            ~\E y \in Below(nodes, x) : matches(nodes, y, "input[type=\"email\"]")
      [] what = "summary" -> ~\E y \in Below(nodes, x) : matches(nodes, y, "summary")
      [] what = "heading" ->
            LET card == closest(nodes, x, ".job-card")
            IN  ~\E y \in Below(nodes, IF card # 0 THEN card ELSE x) :
                    matches(nodes, y, "h3, h2, .job-card__title")

\* the field a run of a listener sends in place of what is missing
FallbackSent(nodes, f) ==
    Len(f.calls) = 1 =>
        LET p == f.calls[1].params
        IN  /\ (f.group = "cta" /\ Missing(nodes, f.el, "href")) => p.cta_url = ""
            /\ (f.group = "tool" /\ Missing(nodes, f.el, "href")) => p.tool_url = ""
            /\ (f.group \in {"job", "outbound", "glossary"} /\ Missing(nodes, f.el, "href"))
                    => p.link_url = ""
            /\ (f.group = "job" /\ Missing(nodes, f.el, "heading"))
                    => p.job_title = substring(trim(textContent(nodes, f.el)), 80)
            /\ (f.group = "newsletter" /\ Missing(nodes, f.el, "email")) => p.has_email = FALSE
            /\ (f.group = "filter" /\ Missing(nodes, f.el, "name/id")) => p.filter_name = "unknown"
            /\ (f.group = "details" /\ Missing(nodes, f.el, "summary")) => p.question = ""

\* C15: every listener an interaction reaches runs and ends without throwing,
\* cancels nothing and stops nothing, so the browser then does what it does
\* without the tracker (follows the link, sends the form); where a heading,
\* an email input, a summary, an href or a name/id is missing, the field
\* sent holds the fallback: '' for an href or a summary, false for has_email,
\* "unknown" for the filter name, and for a job card without a heading the
\* element's own trimmed text cut to 80 characters ('' when it has none).
C15_ListenersNeverThrowNorBlock ==
    fired.type # "none" =>
        /\ Len(fired.ran) = Len(Reached(listeners, document.nodes, fired.type, fired.target))
        /\ \A i \in 1..Len(fired.ran) :
              /\ fired.ran[i].completion.type = "normal"
              /\ ~fired.ran[i].defaultPrevented
              /\ ~fired.ran[i].propagationStopped
              /\ FallbackSent(document.nodes, fired.ran[i])
        /\ fired.native = NativeAction(document.nodes, fired.type, fired.target)

\* a form without an email input was submitted: the listener sent has_email
\* false and the form was sent
C15_Witness ==
    /\ fired.type = "submit"
    /\ fired.native = "submit"
    /\ Len(fired.ran) = 1
    /\ Missing(document.nodes, fired.ran[1].el, "email")
    /\ fired.ran[1].calls = <<GtagCall("newsletter_signup",
                                [form_location |-> "/salaries/", has_email |-> FALSE])>>

(***************************************************************************)
(* C16                                                                     *)
(***************************************************************************)
\* C16 as stated: the job_title of a job_card_click is the trimmed text of a
\* heading inside the card when the card contains one that holds text, else the
\* clicked element's own trimmed text cut to at most 80 characters.
C16_TitleFromHeadingElseText ==
    \A i \in 1..Len(fired.ran) :
        (fired.ran[i].group = "job" /\ Len(fired.ran[i].calls) = 1) =>
            LET x == fired.ran[i].el
                title == fired.ran[i].calls[1].params.job_title
                card == closest(document.nodes, x, ".job-card")
                headings ==
                    IF card = 0 THEN {}
                    ELSE {y \in Below(document.nodes, card) :
                            /\ document.nodes[y].tag \in {"h1", "h2", "h3", "h4", "h5", "h6"}
                            /\ trim(textContent(document.nodes, y)) # ""}
            IN  IF headings # {}
                THEN \E y \in headings : title = trim(textContent(document.nodes, y))
                ELSE title = substring(trim(textContent(document.nodes, x)), 80)

(***************************************************************************)
(* C17                                                                     *)
(***************************************************************************)
\* C17 as stated: every run of a listener, of whatever group and on whatever
\* event, ends normally and has made exactly one call to gtag.
C17_OneCallPerFiring ==
    \A i \in 1..Len(fired.ran) :
        /\ fired.ran[i].completion.type = "normal"
        /\ Len(fired.ran[i].calls) = 1

\* C17 amended: every run of a listener ends normally and has made exactly
\* one call to gtag, except the run of the details listener on a toggle that
\* closed its details, which has made none.
C17_OneCallPerFiringButClosing ==
    \A i \in 1..Len(fired.ran) :
        /\ fired.ran[i].completion.type = "normal"
        /\ Len(fired.ran[i].calls) =
                IF fired.ran[i].group = "details" /\ fired.ran[i].el \notin document.open
                THEN 0 ELSE 1

\* a details has just been closed: its listener ran and called nothing, after
\* an earlier interaction whose listener made its one call
C17_Witness ==
    /\ fired.type = "toggle"
    /\ Len(fired.ran) = 1
    /\ fired.ran[1].group = "details"
    /\ fired.ran[1].completion = Normal(Undefined)
    /\ fired.ran[1].calls = <<>>
    /\ Len(dataLayer) = 1
    /\ fired.count = 2

(***************************************************************************)
(* C18                                                                     *)
(***************************************************************************)
\* an execution has started the statement
HasStarted(f, stmt) == \E i \in 1..Len(f.ran) : f.ran[i] = stmt

\* C18: an execution of doPost runs parse, locate, build, append, return in
\* this order and stops at the first that throws.  With a body that is no
\* JSON and no sheet, the message is the parser's and the sheet is never
\* looked up; with a body that parses (null too) and no sheet, the message is
\* the sheet-not-found one and the row is never built (no field is read);
\* appendRow is only called once the row of seven cells has been built.
C18_FixedOrderOfSteps ==
    \A p \in 1..MaxRequests :
        LET f == reqs[p]
            order == <<"parse", "locate", "build", "append", "return">>
            started == SelectSeq(f.ran, LAMBDA stmt : stmt # "catch")
        IN  /\ started = SubSeq(order, 1, Len(started))
            /\ HasStarted(f, "append") => Len(f.rowData) = Len(FIELDS)
            /\ (Done(f) /\ SHEET_NAME \notin DOMAIN ss) =>
                  LET parsed == JSON_parse(BodyOf(f.e))
                  IN  IF parsed.type = "throw"
                      THEN /\ Message(f.result) = ErrorToString(parsed.value)
                           /\ ~HasStarted(f, "locate")
                      ELSE /\ Message(f.result) = ErrorToString(SheetNotFound(SHEET_NAME))
                           /\ ~HasStarted(f, "build")
                           /\ f.rowData = <<>>

\* the sheet is missing; one request had a body that is no JSON and got the
\* parser's message, another had the body null and got the sheet's
C18_Witness ==
    /\ SHEET_NAME \notin DOMAIN ss
    /\ Done(reqs[1]) /\ Done(reqs[2])
    /\ BodyOf(reqs[1].e) = Text(<<Junk("first_name=Test&last_name=User")>>)
    /\ reqs[1].ran = <<"parse", "catch">>
    /\ Includes(Message(reqs[1].result), "SyntaxError")
    /\ BodyOf(reqs[2].e) = Text(<<LitTok("null")>>)
    /\ reqs[2].ran = <<"parse", "locate", "catch">>
    /\ Includes(Message(reqs[2].result), "Sheet \"Registrants\" not found")

(***************************************************************************)
(* C19                                                                     *)
(***************************************************************************)
\* C19: a body that is JSON but no object is not refused as malformed.  A
\* number, a string, a boolean or an array is taken for an object without
\* fields: the call ends exactly as the call with the body {} does, the row
\* it builds is six empty cells and today's date, and with the sheet there
\* and the store working that row is appended and success returned.  The
\* body null gets the error envelope and no row.
C19_NonObjectBody ==
    (Posted /\ BodyParses) =>
        LET d == Data
            EmptyRow == [i \in Columns |-> Str(IF i = Len(FIELDS) THEN TodayText ELSE "")]
        IN  /\ d.t \in {"number", "string", "boolean", "array"} =>
                /\ ~Includes(Message(result), "SyntaxError")
                /\ result = doPost(PostEvent(JSON_stringify(EmptyObject, FIELDS)),
                                   call.prior, call.today, call.storeOk, globals).completion
                /\ SheetExists => call.rowData = EmptyRow
                /\ (SheetExists /\ call.storeOk) => SavedAs(EmptyRow)
            /\ d = Null =>
                /\ Status(result) = "error"
                /\ ss = call.prior

\* the body ["Test"] was posted the day after the start: the empty row with
\* that day's date is the last row of the sheet
C19_Witness ==
    /\ Posted /\ HasBody
    /\ Body = Text(<<Punct("["), StrTok("Test"), Punct("]")>>)
    /\ Status(result) = "success"
    /\ Grew
    /\ LastRow = <<Str(""), Str(""), Str(""), Str(""), Str(""), Str(""), Str("2/15/2026")>>

(***************************************************************************)
(* C20                                                                     *)
(***************************************************************************)
\* C20: in the row doPost builds from a JSON object, a field that is there
\* but holds "", null, 0 or false gives the cell a missing field gives ('',
\* and today's date in the last column: an empty date_joined is not stored
\* as given); the row is the one built from the object without those fields.
\* A field holding anything else gives a cell holding that very value (the
\* text with its blanks, the number as a number).
C20_FalsyLikeMissing ==
    (Posted /\ SheetExists /\ BodyParses) =>
        LET d == Data
        IN  d.t = "object" =>
                /\ call.rowData =
                      rowData(Obj([k \in {k \in DOMAIN d.o : NonEmpty(d.o[k])} |-> d.o[k]]),
                              call.today).value
                /\ \A i \in Columns :
                      call.rowData[i] =
                          IF Present(d, i) /\ NonEmpty(Field(d, i)) THEN Field(d, i)
                          ELSE Str(IF i = Len(FIELDS) THEN TodayText ELSE "")
                /\ call.storeOk => SavedAs(call.rowData)

\* a submission whose date_joined is "" and whose other fields are filled was
\* saved with the current date in the last column
C20_Witness ==
    /\ Posted /\ HasBody /\ BodyParses
    /\ Data = With(Sample, "date_joined", Str(""))
    /\ Grew
    /\ LastRow[7] = Str(TodayText)
    /\ \A i \in 1..6 : LastRow[i] = Sample.o[FIELDS[i]]

(***************************************************************************)
(* C21                                                                     *)
(***************************************************************************)
\* C21: the guard and the scan for matching elements are evaluated once, when
\* the script runs.  On a loaded page, whatever has happened since (gtag has
\* arrived, other scripts have changed elements, the user has interacted):
\* the listeners are those the script added for the page as it was parsed and
\* the gtag it found then, none more and none less; when gtag was missing
\* then, no listener has run and nothing has been sent; and every listener
\* that ran on the last event ran on an element that matched its selector
\* when the script ran.
C21_ScannedOnceAtInitialization ==
    document # Null =>
        LET atLoad == Tracker(Parsed.nodes, [window EXCEPT !.gtag = fired.sink])
        IN  /\ listeners = atLoad
            /\ fired.sink # "function" => fired.ran = <<>> /\ dataLayer = <<>>
            /\ \A i \in 1..Len(fired.ran) :
                    \E k \in 1..Len(atLoad) :
                        /\ atLoad[k].el = fired.ran[i].el
                        /\ atLoad[k].group = fired.ran[i].group

\* gtag was there when the script ran; another script has made an element a
\* button since; the user has clicked it, and no listener has run
C21_Witness ==
    /\ document # Null
    /\ fired.sink = "function"
    /\ listeners # <<>>
    /\ fired.type = "click"
    /\ "btn" \in document.nodes[fired.target].classes
    /\ ~matches(Parsed.nodes, fired.target,
                ".btn--primary, .btn--secondary, .nav-cta, .btn-subscribe, .btn-gold, .btn")
    /\ matches(document.nodes, fired.target,
               ".btn--primary, .btn--secondary, .nav-cta, .btn-subscribe, .btn-gold, .btn")
    /\ fired.ran = <<>>

====
